---- MODULE Spec2Model ----
(***************************************************************************)
(* A model of pyfog: the run store (experiment.py: Tombstone, Experiment)  *)
(* and the acquisition flow (allan_variance.py).                           *)
(*                                                                         *)
(* Optional Python values (None or a number) are sequences: <<>> is None   *)
(* and <<v>> is the number v.  Error classes are strings; "OK" = no error. *)
(***************************************************************************)
EXTENDS Integers, Sequences, FiniteSets, TLC

VARIABLES
    h5file,     \* the PyTables file: key -> [data, attrs] for every Array node
    writers,    \* the threads that may call Experiment.__setitem__
    wpc,        \* per writer: position inside __setitem__
    wkey,       \* per writer: the `key` argument
    witem,      \* per writer: the `item` argument
    werr,       \* per writer: the exception __setitem__ ended with, or "OK"
    wclosed,    \* per writer: its `arr` handle was closed by a node removal
    ret,        \* what the caller's last read / delete / clear returned or raised
    apc,        \* position of the acquisition flow (acquire_allan_variance)
    loc,        \* its local variables, those of the functions it calls included
    hwlog,      \* the instrument operations invoked so far, in order
    stage,      \* motion of the rotation stage
    motion,     \* the least time the rotation under way still takes, in 0.01 s
    lia,        \* lock-in amplifier settings: sensitivity (mV), time_constant (0.1 s)
    now,        \* wall clock, seconds since the flow first read it
    timers,     \* pending threading.Timer objects of update_progress
    widgets,    \* the label text and the progress bar value
    hdf5_file,  \* the h5py file of save_to_h5: prefix -> [data, attrs]
    printed,    \* what the flow has printed
    result,     \* the value returned to the caller: <<>> or <<session>>
    aerr,       \* the exception that reached the caller, or "OK"
    av          \* a call of allan_var: position, arguments, locals, what it returned

storeVars == <<h5file, writers, wpc, wkey, witem, werr, wclosed, ret>>

acqVars == <<apc, loc, hwlog, stage, motion, lia, now, timers, widgets, hdf5_file, printed,
             result, aerr>>

----------------------------------------------------------------------------
(* Python values *)

None == <<>>

\* bool(x) of an optional number: None and 0 are falsy
Truthy(x) == x # None /\ x[1] # 0

\* str(type(item)) as its characters
TombstoneTypeStr ==
    <<"<","c","l","a","s","s"," ","'","p","y","f","o","g",".",
      "e","x","p","e","r","i","m","e","n","t",".",
      "T","o","m","b","s","t","o","n","e","'",">">>

ListTypeStr == <<"<","c","l","a","s","s"," ","'","l","i","s","t","'",">">>

\* a list subclass that happens to be called TombstoneLog: it has no rate,
\* start or scale_factor attribute
TombstoneLogTypeStr ==
    <<"<","c","l","a","s","s"," ","'",
      "T","o","m","b","s","t","o","n","e","L","o","g","'",">">>

TombstoneWord == <<"T","o","m","b","s","t","o","n","e">>

\* Python's `needle in haystack` on strings
StrContains(needle, haystack) ==
    \E i \in 0..(Len(haystack) - Len(needle)) :
        \A j \in 1..Len(needle) : haystack[i + j] = needle[j]

----------------------------------------------------------------------------
(* Tombstone *)

\* the index built by Tombstone.__init__: time stamps in ms when start is
\* truthy, else hours since start as the fraction <<i, 3600*rate>>
DateIndex(data, rate, start) ==
    IF Truthy(start)
    THEN [i \in 1..Len(data) |-> <<"ms", start[1] * 1000 + (i - 1) * (1000 \div rate)>>]
    ELSE [i \in 1..Len(data) |-> <<"h", i - 1, 3600 * rate>>]

Tombstone(data, rate, start, scale_factor) ==
    [type         |-> TombstoneTypeStr,
     data         |-> data,
     index        |-> DateIndex(data, rate, start),
     name         |-> IF Truthy(scale_factor) THEN "voltage" ELSE "rotation",
     rate         |-> rate,
     scale_factor |-> scale_factor,
     start        |-> start]

\* scale_factor * np.array(self)
Scale(s, v) == [i \in 1..Len(v) |-> s * v[i]]

rotation(self) ==
    IF Truthy(self.scale_factor)
    THEN Scale(self.scale_factor[1], self.data)
    ELSE self.data

\* Tombstone.voltage: the raw data, or ValueError without a scale factor
voltage(self) ==
    IF Truthy(self.scale_factor)
    THEN [err |-> "OK", val |-> self.data]
    ELSE [err |-> "ValueError", val |-> <<>>]

----------------------------------------------------------------------------
(* The values the model passes to the store *)

Keys == {"a", "b"}

AttrNames == {"rate", "start", "scale_factor"}

Runs ==
    { Tombstone(<<1, 2>>, 2, None, None),
      Tombstone(<<1, 2>>, 4, <<5>>, <<3>>),
      Tombstone(<<3>>, 2, <<0>>, <<0>>),
      Tombstone(<<3>>, 4, None, <<3>>) }

NotRuns ==
    { [type |-> ListTypeStr, data |-> <<1, 2>>],
      [type |-> TombstoneLogTypeStr, data |-> <<3>>] }

Items == Runs \cup NotRuns

WriterIds == {1, 2}

NoItem == [type |-> <<>>, data |-> <<>>]

----------------------------------------------------------------------------
(* Experiment: the reads, as functions of the file f *)

\* walk_nodes visits the children of a group in name order
KeyOrder == <<"a", "b">>

keys(f) == SelectSeq(KeyOrder, LAMBDA k : k \in DOMAIN f)

has_key(f, k) == \E i \in 1..Len(keys(f)) : keys(f)[i] = k

\* getitem with the start and scale_factor attributes taken for each other
getitem_swapped(f, k) ==
    IF k \notin DOMAIN f
    THEN [err |-> "NoSuchNodeError", val |-> NoItem]
    ELSE IF AttrNames \subseteq DOMAIN f[k].attrs
    THEN [err |-> "OK",
          val |-> Tombstone(f[k].data, f[k].attrs["rate"], f[k].attrs["scale_factor"],
                            f[k].attrs["start"])]
    ELSE [err |-> "AttributeError", val |-> NoItem]

\* __getitem__: get_node raises NoSuchNodeError for an absent key, reading an
\* attribute that was never written raises AttributeError
getitem(f, k) ==
    IF k \notin DOMAIN f
    THEN [err |-> "NoSuchNodeError", val |-> NoItem]
    ELSE IF AttrNames \subseteq DOMAIN f[k].attrs
    THEN [err |-> "OK",
          val |-> Tombstone(f[k].data, f[k].attrs["rate"], f[k].attrs["start"],
                            f[k].attrs["scale_factor"])]
    ELSE [err |-> "AttributeError", val |-> NoItem]

values(f) ==
    IF \E k \in DOMAIN f : getitem(f, k).err # "OK"
    THEN [err |-> "AttributeError", val |-> <<>>]
    ELSE [err |-> "OK",
          val |-> [i \in 1..Len(keys(f)) |-> getitem(f, keys(f)[i]).val]]

\* zip(self.keys(), self.values())
items(f) ==
    IF values(f).err # "OK"
    THEN [err |-> values(f).err, val |-> <<>>]
    ELSE [err |-> "OK",
          val |-> [i \in 1..Len(keys(f)) |-> <<keys(f)[i], values(f).val[i]>>]]

\* A value tested for membership: a key string, or a (key, Tombstone) pair.
StrArg(k) == [kind |-> "str", key |-> k]
PairArg(k, t) == [kind |-> "pair", key |-> k, item |-> t]

ContainsArgs == {StrArg(k) : k \in Keys} \cup {PairArg(k, t) : k \in Keys, t \in Runs}

\* The exception classes that comparing two Tombstones can end with: the
\* element-wise Series comparison has no truth value and its result cannot be
\* built by Tombstone's constructor
CompareErrors == {"ValueError", "TypeError"}

\* __contains__: `item in self.items()` compares item with each (key, Tombstone)
\* pair.  A string never equals a pair; a pair whose key matches goes on to
\* compare the Tombstones, which raises (e is the class raised).
contains(f, x, e) ==
    IF items(f).err # "OK"
    THEN [err |-> items(f).err, val |-> FALSE]
    ELSE IF x.kind = "str"
    THEN [err |-> "OK", val |-> FALSE]
    ELSE IF \E i \in 1..Len(items(f).val) : items(f).val[i][1] = x.key
    THEN [err |-> e, val |-> FALSE]
    ELSE [err |-> "OK", val |-> FALSE]

----------------------------------------------------------------------------
(* Experiment: the writes *)

EmptyFile == [k \in {} |-> k]

NoAttrs == [a \in {} |-> a]

\* create_array that replaces the node of an existing key
create_array_replacing(f, k, data) ==
    [err |-> "OK",
     file |-> [x \in DOMAIN f \cup {k} |->
                 IF x = k THEN [data |-> data, attrs |-> NoAttrs] ELSE f[x]]]

\* create_array that hands back the node of an existing key instead of raising
create_array_exist_ok(f, k, data) ==
    IF k \in DOMAIN f
    THEN [err |-> "OK", file |-> f]
    ELSE [err |-> "OK",
          file |-> [x \in DOMAIN f \cup {k} |->
                      IF x = k THEN [data |-> data, attrs |-> NoAttrs] ELSE f[x]]]

\* h5file.create_array(root, key, data): NodeError when root already has a
\* child called key, else a new Array node with no attributes yet
create_array(f, k, data) ==
    IF k \in DOMAIN f
    THEN [err |-> "NodeError", file |-> f]
    ELSE [err |-> "OK",
          file |-> [x \in DOMAIN f \cup {k} |->
                      IF x = k THEN [data |-> data, attrs |-> NoAttrs] ELSE f[x]]]

\* arr.attrs.<name> = value
set_attr(f, k, name, value) ==
    [f EXCEPT ![k].attrs = [a \in DOMAIN @ \cup {name} |->
                              IF a = name THEN value ELSE @[a]]]

\* h5file.remove_node('/key')
remove_node(f, k) ==
    IF k \notin DOMAIN f
    THEN [err |-> "NoSuchNodeError", file |-> f]
    ELSE [err |-> "OK", file |-> [x \in DOMAIN f \ {k} |-> f[x]]]

\* the type test at the head of __setitem__
IsTombstoneType(item) == StrContains(TombstoneWord, item.type)

\* writer w ends its call with exception class e ("OK": it returns)
Finish(w, e) ==
    /\ wpc' = [wpc EXCEPT ![w] = "done"]
    /\ werr' = [werr EXCEPT ![w] = e]

\* the handles that removing the nodes ks closes: a writer past create_array
\* and not yet returned holds the node of its key
Closes(ks) ==
    [w \in WriterIds |->
        wclosed[w] \/ (wpc[w] \in {"rate", "start", "scale_factor", "flush"}
                        /\ wkey[w] \in ks)]

\* __setitem__ is called: key = str(key) and the type test
SetItem(w, k, item) ==
    /\ w \in writers
    /\ wpc[w] \in {"idle", "done"}
    /\ wkey' = [wkey EXCEPT ![w] = k]
    /\ witem' = [witem EXCEPT ![w] = item]
    /\ wclosed' = [wclosed EXCEPT ![w] = FALSE]
    /\ IF IsTombstoneType(item)
       THEN /\ wpc' = [wpc EXCEPT ![w] = "create"]
            /\ werr' = [werr EXCEPT ![w] = "OK"]
       ELSE Finish(w, "ValueError")
    /\ UNCHANGED <<h5file, writers, ret, acqVars, av>>

\* arr = self.h5file.create_array(self.h5file.root, key, np.array(item))
CreateArray(w) ==
    /\ w \in writers
    /\ wpc[w] = "create"
    /\ LET r == create_array(h5file, wkey[w], witem[w].data)
       IN  /\ h5file' = r.file
           /\ IF r.err = "OK"
              THEN wpc' = [wpc EXCEPT ![w] = "rate"] /\ UNCHANGED werr
              ELSE Finish(w, r.err)
    /\ UNCHANGED <<writers, wkey, witem, wclosed, ret, acqVars, av>>

\* arr.attrs.<name> = item.<name>, then on to position next
WriteAttr(w, name, next) ==
    /\ w \in writers
    /\ wpc[w] = name
    /\ IF name \notin DOMAIN witem[w]
       THEN Finish(w, "AttributeError") /\ UNCHANGED h5file
       ELSE IF wclosed[w]
       THEN Finish(w, "ClosedNodeError") /\ UNCHANGED h5file
       ELSE /\ h5file' = set_attr(h5file, wkey[w], name, witem[w][name])
            /\ wpc' = [wpc EXCEPT ![w] = next]
            /\ UNCHANGED werr
    /\ UNCHANGED <<writers, wkey, witem, wclosed, ret, acqVars, av>>

AttrRate(w) == WriteAttr(w, "rate", "start")

AttrStart(w) == WriteAttr(w, "start", "scale_factor")

AttrScaleFactor(w) == WriteAttr(w, "scale_factor", "flush")

\* arr.flush(), and __setitem__ returns
Flush(w) ==
    /\ w \in writers
    /\ wpc[w] = "flush"
    /\ Finish(w, IF wclosed[w] THEN "ClosedNodeError" ELSE "OK")
    /\ UNCHANGED <<h5file, writers, wkey, witem, wclosed, ret, acqVars, av>>

\* __delitem__
DelItem(k) ==
    /\ LET r == remove_node(h5file, k)
       IN  /\ h5file' = r.file
           /\ ret' = [op |-> "delitem", err |-> r.err, val |-> <<>>]
    /\ wclosed' = Closes({k} \cap DOMAIN h5file)
    /\ UNCHANGED <<writers, wpc, wkey, witem, werr, acqVars, av>>

\* clear: remove_node for every key of keys()
Clear ==
    /\ h5file' = EmptyFile
    /\ ret' = [op |-> "clear", err |-> "OK", val |-> <<>>]
    /\ wclosed' = Closes(DOMAIN h5file)
    /\ UNCHANGED <<writers, wpc, wkey, witem, werr, acqVars, av>>

----------------------------------------------------------------------------
(* Experiment: the reads, as calls *)

Read(op, r) ==
    /\ ret' = [op |-> op, err |-> r.err, val |-> r.val]
    /\ UNCHANGED <<h5file, writers, wpc, wkey, witem, werr, wclosed, acqVars, av>>

GetItem(k) == Read("getitem", getitem(h5file, k))

KeysCall == Read("keys", [err |-> "OK", val |-> keys(h5file)])

LenCall == Read("len", [err |-> "OK", val |-> Len(keys(h5file))])

HasKey(k) == Read("has_key", [err |-> "OK", val |-> has_key(h5file, k)])

ValuesCall == Read("values", values(h5file))

ItemsCall == Read("items", items(h5file))

Contains(x, e) == Read("contains", contains(h5file, x, e))

----------------------------------------------------------------------------
(* allan_var.  Samples are integers; a fraction p/q is the pair <<p, q>>.    *)
(* An Allan deviation is kept as the fraction under its square root, and    *)
(* <<0, 0>> is NaN.                                                         *)

\* 1.1 ** k in fixed point, six decimal places
RECURSIVE PowFix(_)
PowFix(k) == IF k = 0 THEN 1000000 ELSE (PowFix(k - 1) * 11) \div 10

\* rounding down where the code rounds up
CeilFix_floor(p) == p \div 1000000

\* np.ceil of a fixed-point number
CeilFix(p) == (p + 999999) \div 1000000

\* the least K >= k with 1.1 ** K >= n / 9
RECURSIVE LeastExponent(_, _)
LeastExponent(n, k) ==
    IF PowFix(k) * 9 >= n * 1000000 THEN k ELSE LeastExponent(n, k + 1)

\* np.ceil(log(len(x) / 9) / log(dTau)), as the length of the np.arange built
\* from it: a negative bound gives the empty range
NumExponents(n) == IF n < 9 THEN 0 ELSE LeastExponent(n, 0)

\* ascending sequence of the numbers of S
RECURSIVE SortedSeq(_)
SortedSeq(S) ==
    IF S = {} THEN <<>>
    ELSE LET lo == CHOOSE a \in S : \A b \in S : a <= b
         IN  <<lo>> \o SortedSeq(S \ {lo})

\* tau = np.unique(np.ceil(dTau ** np.arange(...)))
Windows(n) == SortedSeq({CeilFix(PowFix(k)) : k \in 0..(NumExponents(n) - 1)})

\* Python's s[a:-1]
SliceToLast(s, a) == SubSeq(s, a + 1, Len(s) - 1)

\* the sum of a sequence, by halves
RECURSIVE SumSeq(_)
SumSeq(s) ==
    IF Len(s) = 0 THEN 0
    ELSE IF Len(s) = 1 THEN s[1]
    ELSE SumSeq(SubSeq(s, 1, Len(s) \div 2)) + SumSeq(SubSeq(s, Len(s) \div 2 + 1, Len(s)))

\* m * lfilter(np.ones(m) / m, 1, x): the causal moving sum over m samples
MovingSum(x, m) ==
    [i \in 1..Len(x) |-> SumSeq(SubSeq(x, IF i - m + 1 < 1 THEN 1 ELSE i - m + 1, i))]

\* lfilter(bp, 1, z) with bp = [1, 0, ..., 0, -1]: z(k) - z(k - m)
LagDiff(z, m) ==
    [i \in 1..Len(z) |-> z[i] - (IF i - m >= 1 THEN z[i - m] ELSE 0)]

\* the delY[m + 1:-1] that enter the mean, times m
UsedDiffs(x, m) == SliceToLast(LagDiff(SliceToLast(MovingSum(x, m), m), m), m + 1)

\* sig[j] ** 2 = 0.5 * np.mean(delY[m + 1:-1] ** 2); the mean of nothing is NaN
SigSquared(x, m) ==
    LET d == UsedDiffs(x, m)
    IN  IF Len(d) = 0 THEN <<0, 0>>
        ELSE <<SumSeq([i \in 1..Len(d) |-> d[i] * d[i]]), 2 * Len(d) * m * m>>

\* the positions of y whose differences delY enter the mean for window m, as
\* 0-based indices k of y: delY(i) = y(m + i) - y(i) over y[m:-1], of which
\* delY[m + 1:-1] is kept
UsedOffsets(n, m) == SliceToLast(SliceToLast([i \in 1..n |-> i - 1], m), m + 1)

\* allan_var(x, dt), dt a fraction: math.log(0) raises ValueError for no samples
allan_var(x, dt) ==
    IF Len(x) = 0
    THEN [err |-> "ValueError", tau |-> <<>>, sig |-> <<>>]
    ELSE LET tau == Windows(Len(x))
         IN  [err |-> "OK",
              tau |-> [j \in 1..Len(tau) |-> <<tau[j] * dt[1], dt[2]>>],
              sig |-> [j \in 1..Len(tau) |-> SigSquared(x, tau[j])]]

\* most samples in a call of allan_var by itself
MaxSamples == 30

\* the sampling intervals of those calls: 1 s and 0.3 s
Intervals == {<<1, 1>>, <<3, 10>>}

NoCall ==
    [pc |-> "idle", x |-> <<>>, dt |-> <<1, 1>>, n |-> 0, tau |-> <<>>,
     used |-> <<>>, err |-> "OK", ret_tau |-> <<>>, ret_sig |-> <<>>]

InitEngine == av = NoCall

EngineFrame == UNCHANGED <<storeVars, acqVars>>

\* allan_var(x, dt) is called
AllanCall(x, dt) ==
    /\ av.pc = "idle"
    /\ av' = [av EXCEPT !.pc = "tau", !.x = x, !.dt = dt]
    /\ EngineFrame

\* n = len(x) and the window lengths tau; log(len(x) / 9) raises for no samples
AllanTau ==
    /\ av.pc = "tau"
    /\ av' = IF Len(av.x) = 0
             THEN [av EXCEPT !.pc = "raised", !.err = "ValueError"]
             ELSE [av EXCEPT !.pc = "loop", !.n = Len(av.x), !.tau = Windows(Len(av.x))]
    /\ EngineFrame

\* the loop over the windows, and return tau * dt, sig
AllanLoop ==
    /\ av.pc = "loop"
    /\ av' = [av EXCEPT !.pc = "returned",
                        !.used = [j \in 1..Len(av.tau) |-> UsedOffsets(av.n, av.tau[j])],
                        !.ret_tau = allan_var(av.x, av.dt).tau,
                        !.ret_sig = allan_var(av.x, av.dt).sig]
    /\ EngineFrame

----------------------------------------------------------------------------
(* The instruments, as the flow sees them.                                  *)
(* Voltages are integers in units of 0.1 mV, sensitivities in mV, time      *)
(* constants in tenths of a second.  A DAQ reading is the trace the device  *)
(* saw, in volts at its input (-10 .. 10), scaled by max_voltage / 10.      *)

\* the time constants the amplifier may be set to when the flow starts:
\* 300e-3 s, 1 s and 3 s
TimeConstants == {3, 10, 30}

\* what the DAQ input may show over one read; a failed read returns zeros
TraceShapes == {"zeros", "level", "ripple"}

Trace(shape, n) ==
    [i \in 1..n |->
        CASE shape = "zeros"  -> 0
          [] shape = "level"  -> 5
          [] shape = "ripple" -> IF i % 3 = 0 THEN 2 ELSE 4 + (i % 2)]

\* NI_9215.read(seconds, frequency = 1 / tc, max_voltage): int(seconds *
\* frequency) samples of data / 10 * max_voltage; seconds comes in 0.01 s
daq_read(seconds, tc, max_voltage, shape) ==
    LET sample_size == seconds \div (10 * tc)
    IN  [i \in 1..sample_size |-> Trace(shape, sample_size)[i] * max_voltage]

\* the waveform generator's settings, read by save_to_h5
awg == [freq |-> 100, voltage |-> 2, waveform |-> "SIN"]

\* the stage has been told to rotate
rot_rotate(st) == "accelerating"

\* the least time, in 0.01 s, a rotation by `halves` half dither angles takes
\* at the velocity set
rotation_time(halves, angle, velocity) == (50 * halves * angle) \div velocity

\* rot.is_stationary() and rot.is_constant_speed()
is_stationary(st) == st = "stationary"

is_constant_speed(st) == st = "constant"

\* the phases of a rotation, in the order the stage goes through them
Phase(st) ==
    CASE st = "accelerating" -> 1
      [] st = "constant"     -> 2
      [] st = "decelerating" -> 3
      [] st = "stationary"   -> 4

\* The <<stage, motion>> the stage may be in when time t has passed: it may
\* have reached constant speed, or started to slow down before it did; it has
\* stopped only if the rotation could be over by then.
After(st, left, t) ==
    { <<s, IF left > t THEN left - t ELSE 0>> :
        s \in { r \in {"accelerating", "constant", "decelerating", "stationary"} :
                  /\ Phase(r) >= Phase(st)
                  /\ (r = "stationary" /\ st # "stationary") => left <= t } }

\* time t passes for the stage while the flow sleeps or reads
Passes(t) == \E s \in After(stage, motion, t) : stage' = s[1] /\ motion' = s[2]

\* the positions at which the flow polls the stage in a loop
WaitPositions ==
    {"g_wait1", "g_wait2", "g_wait3", "g_wait4", "g_const1", "g_const2"}

\* the time that passes between two polls that see the stage change: 0.25 s
PollQuantum == 25

\* The stage goes on with its rotation while the flow polls it.
StageMoves ==
    /\ apc \in WaitPositions
    /\ stage # "stationary"
    /\ Passes(PollQuantum)
    /\ <<stage', motion'>> # <<stage, motion>>
    /\ UNCHANGED <<apc, loc, hwlog, lia, now, timers, widgets, hdf5_file, printed,
                   result, aerr, storeVars, av>>

----------------------------------------------------------------------------
(* get_scale_factor *)

\* the defaults of get_scale_factor
dither_angle == 5

dither_velocity == 1

padding == 1

Abs(a) == IF a < 0 THEN 0 - a ELSE a

RECURSIVE Gcd(_, _)
Gcd(a, b) == IF b = 0 THEN a ELSE Gcd(b, a % b)

\* the fraction p/q in lowest terms; <<1, 0>> is infinity
Reduced(p, q) == <<p \div Gcd(p, q), q \div Gcd(p, q)>>

\* the scale factor with the mean taken over both traces
scale_factor_of_both(cw_data, ccw_data, velocity) ==
    IF Len(cw_data) = 0 THEN <<0, 0>>
    ELSE Reduced(2 * velocity * Len(cw_data),
                 Abs(SumSeq(cw_data)) + Abs(SumSeq(ccw_data)))

\* The scale factor from the two traces, in units of 3600 * cos(37.4 deg) /
\* 0.1 mV degrees per hour per volt: velocity over the mean absolute voltage.
\* Both terms of the mean are the clockwise trace.  No samples gives NaN
\* (<<0, 0>>), a zero mean gives infinity (<<1, 0>>).
scale_factor_of(cw_data, ccw_data, velocity) ==
    IF Len(cw_data) = 0 THEN <<0, 0>>
    ELSE Reduced(2 * velocity * Len(cw_data),
                 Abs(SumSeq(cw_data)) + Abs(SumSeq(cw_data)))

\* the flow moves to position p
Goto(p) == apc' = p

Log(op) == hwlog' = Append(hwlog, op)

\* nothing but the position, the locals and the log changes
FlowFrame ==
    UNCHANGED <<now, timers, widgets, hdf5_file, printed, result, aerr, storeVars, av>>

\* get_scale_factor(instruments, _dither_angle, _dither_velocity, _padding) is
\* called by itself
GetScaleFactor(angle, velocity, pad) ==
    /\ apc = "idle"
    /\ loc' = [loc EXCEPT !.angle = angle, !.velocity = velocity, !.pad = pad,
                          !.g_caller = "direct"]
    /\ Goto("g_velocity")
    /\ UNCHANGED <<hwlog, stage, motion, lia>>
    /\ FlowFrame

\* rot.velocity = _dither_velocity; read_time, in 0.01 s
GVelocity ==
    /\ apc = "g_velocity"
    /\ Log(<<"rot", "velocity=">>)
    /\ loc' = [loc EXCEPT !.read_time =
                             (100 * loc.angle) \div loc.velocity - 100 * loc.pad]
    /\ Goto("g_freq")
    /\ UNCHANGED <<stage, motion, lia, widgets>>
    /\ FlowFrame

\* five reads of lia.time_constant: freq = 1 / lia.time_constant
GFreq ==
    /\ apc = "g_freq"
    /\ hwlog' = hwlog \o [i \in 1..5 |-> <<"lia", "time_constant">>]
    /\ loc' = [loc EXCEPT !.freq_tc = lia.time_constant]
    /\ Goto("g_cw_half")
    /\ UNCHANGED <<stage, motion, lia>>
    /\ FlowFrame

\* rot.cw(angle) or rot.ccw(angle), in the background; op[3] tells the angle
Rotate(at, op, next) ==
    /\ apc = at
    /\ Log(op)
    /\ stage' = rot_rotate(stage)
    /\ motion' = rotation_time(IF op[3] = "half" THEN 1 ELSE 2, loc.angle, loc.velocity)
    /\ Goto(next)
    /\ UNCHANGED <<loc, lia>>
    /\ FlowFrame

\* a loop that gives up: it goes on whatever the stage reports
WaitStationary_gives_up(at, next) ==
    /\ apc = at
    /\ Goto(next)
    /\ UNCHANGED <<loc, hwlog, stage, motion, lia>>
    /\ FlowFrame

\* while not rot.is_stationary(): pass -- the poll that ends the loop
WaitStationary(at, next) ==
    /\ apc = at
    /\ is_stationary(stage)
    /\ Log(<<"rot", "is_stationary">>)
    /\ Goto(next)
    /\ UNCHANGED <<loc, stage, motion, lia>>
    /\ FlowFrame

\* no wait for constant speed at all
WaitConstantSpeed_skipped(at, next) ==
    /\ apc = at
    /\ Goto(next)
    /\ UNCHANGED <<loc, hwlog, stage, motion, lia>>
    /\ FlowFrame

\* while True: if rot.is_constant_speed(): break -- the poll that ends the loop
WaitConstantSpeed(at, next) ==
    /\ apc = at
    /\ is_constant_speed(stage)
    /\ Log(<<"rot", "is_constant_speed">>)
    /\ Goto(next)
    /\ UNCHANGED <<loc, stage, motion, lia>>
    /\ FlowFrame

GCwHalf == Rotate("g_cw_half", <<"rot", "cw", "half">>, "g_sensitivity")

\* the settle interval of both half rotations: time.sleep(.5), in 0.01 s
settle_time == 50

\* time.sleep(.5); lia.sensitivity = 0.1
GSensitivity ==
    /\ apc = "g_sensitivity"
    /\ Passes(settle_time)
    /\ Log(<<"lia", "sensitivity=">>)
    /\ lia' = [lia EXCEPT !.sensitivity = 100]
    /\ Goto("g_wait1")
    /\ UNCHANGED loc
    /\ FlowFrame

GWait1 == WaitStationary("g_wait1", "g_ccw_half")

GCcwHalf == Rotate("g_ccw_half", <<"rot", "ccw", "half">>, "g_autophase")

\* time.sleep(0.5); lia.autophase(): stage' is the stage as autophase finds it
GAutophase ==
    /\ apc = "g_autophase"
    /\ Passes(settle_time)
    /\ Log(<<"lia", "autophase">>)
    /\ Goto("g_wait2")
    /\ UNCHANGED <<loc, lia>>
    /\ FlowFrame

GWait2 == WaitStationary("g_wait2", "g_cw_full")

GCwFull == Rotate("g_cw_full", <<"rot", "cw", "full">>, "g_const1")

GConst1 == WaitConstantSpeed("g_const1", "g_read_cw")

\* a daq.read of get_scale_factor into the local `into`; it takes read_time
GRead(at, into, next, shape) ==
    /\ apc = at
    /\ Passes(loc.read_time)
    /\ hwlog' = hwlog \o <<<<"lia", "sensitivity">>, <<"daq", "read">>>>
    /\ loc' = [loc EXCEPT ![into] =
                  daq_read(loc.read_time, loc.freq_tc, lia.sensitivity, shape)]
    /\ Goto(next)
    /\ UNCHANGED lia
    /\ FlowFrame

GReadCw(shape) == GRead("g_read_cw", "cw_data", "g_wait3", shape)

GWait3 == WaitStationary("g_wait3", "g_ccw_full")

\* the last rotation turning clockwise once more
GCcwFull_clockwise == Rotate("g_ccw_full", <<"rot", "cw", "full">>, "g_const2")

GCcwFull == Rotate("g_ccw_full", <<"rot", "ccw", "full">>, "g_const2")

GConst2 == WaitConstantSpeed("g_const2", "g_read_ccw")

GReadCcw(shape) == GRead("g_read_ccw", "ccw_data", "g_wait4", shape)

GWait4 == WaitStationary("g_wait4", "g_return")

\* vpdps, dphpv and the return: into acquire_allan_variance, which goes on
\* with its label, or to the caller
GReturn ==
    /\ apc = "g_return"
    /\ loc' = [loc EXCEPT !.scale_factor =
                  scale_factor_of(loc.cw_data, loc.ccw_data, loc.velocity)]
    /\ IF loc.g_caller = "acquire"
       THEN /\ widgets' = [widgets EXCEPT !.label = <<"Setting sensitivity">>]
            /\ Goto("a_sensitivity")
       ELSE /\ UNCHANGED widgets
            /\ Goto("g_returned")
    /\ UNCHANGED <<hwlog, stage, motion, lia, now, timers, hdf5_file, printed, result, aerr,
                   storeVars, av>>

----------------------------------------------------------------------------
(* save_to_h5 *)

Prefix == "run"

NoGroups == [g \in {} |-> g]

\* create_dataset(prefix + '/name', data): raises when the name exists
create_dataset(f, name, data) ==
    IF Prefix \in DOMAIN f /\ name \in DOMAIN f[Prefix].data
    THEN [err |-> "ValueError", file |-> f]
    ELSE [err |-> "OK",
          file |-> [g \in {Prefix} |->
                      IF Prefix \in DOMAIN f
                      THEN [f[Prefix] EXCEPT !.data =
                               [d \in DOMAIN @ \cup {name} |->
                                   IF d = name THEN data ELSE @[d]]]
                      ELSE [data |-> [d \in {name} |-> data], attrs |-> NoAttrs]]]

\* hdf5_file[prefix + '/name'][...] = data: KeyError without the dataset,
\* TypeError when the shapes differ
assign_dataset(f, name, data) ==
    IF Prefix \notin DOMAIN f \/ name \notin DOMAIN f[Prefix].data
    THEN [err |-> "KeyError", file |-> f]
    ELSE IF Len(f[Prefix].data[name]) # Len(data)
    THEN [err |-> "TypeError", file |-> f]
    ELSE [err |-> "OK", file |-> [f EXCEPT ![Prefix].data[name] = data]]

\* hdf5_file[prefix].attrs[name] = value, for each name of the record `more`
set_attrs(f, more) ==
    [f EXCEPT ![Prefix].attrs =
        [a \in DOMAIN @ \cup DOMAIN more |-> IF a \in DOMAIN more THEN more[a] ELSE @[a]]]

\* an exception of save_to_h5 that nothing catches on its way to the caller
SaveRaisesUncaught(p, e) ==
    /\ printed' = p
    /\ aerr' = e
    /\ Goto("raised")
    /\ UNCHANGED loc

\* An exception leaves save_to_h5.  Inside acquire_allan_variance the caller
\* prints it and goes on; a direct call passes it to its caller.
\* (p is what has been printed by then.)
SaveRaisesWith(p, e) ==
    IF loc.save_caller = "acquire"
    THEN /\ printed' = Append(p, e)
         /\ loc' = [loc EXCEPT !.save_err = e]
         /\ Goto("a_close")
         /\ UNCHANGED aerr
    ELSE /\ printed' = p
         /\ aerr' = e
         /\ Goto("raised")
         /\ UNCHANGED loc

SaveRaises(e) == SaveRaisesWith(printed, e)

\* save_to_h5 returns
SaveReturns == Goto(IF loc.save_caller = "acquire" THEN "a_close" ELSE "saved")

SaveFrame == UNCHANGED <<stage, motion, lia, now, timers, widgets, result, storeVars, av>>

\* import h5py; with h5py.File(filename) as hdf5_file: opening may fail
SOpen(ok) ==
    /\ apc = "s_open"
    /\ IF ok
       THEN Goto("s_tau") /\ UNCHANGED <<printed, loc, aerr>>
       ELSE SaveRaises("OSError")
    /\ UNCHANGED <<hwlog, hdf5_file>>
    /\ SaveFrame

\* one create_dataset of the try block
SCreate(at, name, key, next) ==
    /\ apc = at
    /\ LET r == create_dataset(hdf5_file, name, loc.results_dict[1][key])
       IN  /\ hdf5_file' = r.file
           /\ IF r.err = "OK"
              THEN Goto(next) /\ UNCHANGED loc
              ELSE Goto("s_except") /\ loc' = [loc EXCEPT !.caught = r.err]
    /\ UNCHANGED <<hwlog, printed, aerr>>
    /\ SaveFrame

STau == SCreate("s_tau", "tau", "taus", "s_sigma")

SSigma == SCreate("s_sigma", "sigma", "sigmas", "s_start_time")

\* except Exception as err: print and return, or overwrite both datasets
SExcept ==
    /\ apc = "s_except"
    /\ IF ~loc.overwrite
       THEN /\ printed' = Append(printed, loc.caught)
            /\ SaveReturns
            /\ UNCHANGED <<hdf5_file, loc, aerr>>
       ELSE LET t == assign_dataset(hdf5_file, "tau", loc.results_dict[1].taus)
                g == assign_dataset(t.file, "sigma", loc.results_dict[1].sigmas)
            IN  IF t.err # "OK"
                THEN /\ hdf5_file' = t.file
                     /\ SaveRaisesWith(Append(printed, "Overwriting..."), t.err)
                ELSE IF g.err # "OK"
                THEN /\ hdf5_file' = g.file
                     /\ SaveRaisesWith(Append(printed, "Overwriting..."), g.err)
                ELSE /\ hdf5_file' = g.file
                     /\ printed' = Append(printed, "Overwriting...")
                     /\ Goto("s_start_time")
                     /\ UNCHANGED <<loc, aerr>>
    /\ UNCHANGED hwlog
    /\ SaveFrame

\* hdf5_file[prefix].attrs['start_time'] = results_dict['start_time']
SStartTime ==
    /\ apc = "s_start_time"
    /\ hdf5_file' = set_attrs(hdf5_file,
                              [start_time |-> loc.results_dict[1].start_time])
    /\ Goto("s_freq")
    /\ UNCHANGED <<hwlog, printed, loc, aerr>>
    /\ SaveFrame

\* an attribute read from the waveform generator: the query may fail
SAwg(at, name, field, next, ok) ==
    /\ apc = at
    /\ Log(<<"awg", field>>)
    /\ IF ok
       THEN /\ hdf5_file' = set_attrs(hdf5_file, [a \in {name} |-> awg[field]])
            /\ Goto(next)
            /\ UNCHANGED <<printed, loc, aerr>>
       ELSE SaveRaises("VisaIOError") /\ UNCHANGED hdf5_file
    /\ SaveFrame

SFreq(ok) == SAwg("s_freq", "modulation_frequency", "freq", "s_voltage", ok)

SVoltage(ok) == SAwg("s_voltage", "modulation_voltage", "voltage", "s_waveform", ok)

SWaveform(ok) == SAwg("s_waveform", "modulation_waveform", "waveform", "s_rest", ok)

\* the other attributes; source_current is in hundredths
SRest ==
    /\ apc = "s_rest"
    /\ hdf5_file' = set_attrs(hdf5_file,
           [duration           |-> loc.results_dict[1].duration,
            scale_factor       |-> loc.results_dict[1].scale_factor,
            sensitivity        |-> loc.results_dict[1].sensitivity,
            time_constant      |-> loc.results_dict[1].time_constant,
            source_temperature |-> 20,
            source_current     |-> 16263])
    /\ SaveReturns
    /\ UNCHANGED <<hwlog, printed, loc, aerr>>
    /\ SaveFrame

----------------------------------------------------------------------------
(* acquire_allan_variance *)

\* the clock stops being modelled MaxTime seconds after the flow first read it
MaxTime == 4

\* (seconds, minutes, hours) of the calls the model makes
CallArgs ==
    { <<0, 0, 0>>, <<-1, 0, 0>>, <<0, -1, 0>>, <<-60, 1, 0>>,
      <<2, 0, 0>>, <<3, 0, 0>>, <<-57, 1, 0>>, <<-3597, 0, 1>> }

\* the text update_progress puts on the label: h:mm:ss of the bar value
TimeText(value) == <<"elapsed", value \div 3600, (value \div 60) % 60, value % 60>>

\* update_progress that schedules two successors while time is left
update_progress_twice(pending) ==
    LET time_passed == now - loc.start_time[1]
    IN  /\ IF time_passed < loc.duration
           THEN /\ timers' = pending + 2
                /\ widgets' = [widgets EXCEPT !.bar = time_passed,
                                              !.label = TimeText(time_passed)]
           ELSE /\ timers' = pending
                /\ widgets' = [widgets EXCEPT !.bar = loc.duration,
                                              !.label = TimeText(loc.duration)]

\* update_progress that schedules its successor whatever time has passed
update_progress_always(pending) ==
    LET time_passed == now - loc.start_time[1]
    IN  /\ timers' = pending + 1
        /\ widgets' = [widgets EXCEPT !.bar = time_passed,
                                      !.label = TimeText(time_passed)]

\* the body of update_progress, given the number of timers pending before it
update_progress(pending) ==
    LET time_passed == now - loc.start_time[1]
    IN  /\ IF time_passed < loc.duration
           THEN /\ timers' = pending + 1
                /\ widgets' = [widgets EXCEPT !.bar = time_passed,
                                              !.label = TimeText(time_passed)]
           ELSE /\ timers' = pending
                /\ widgets' = [widgets EXCEPT !.bar = loc.duration,
                                              !.label = TimeText(loc.duration)]

\* a progress task that takes the time of its own run for the start time
TimerFires_restarts_clock ==
    /\ timers > 0
    /\ update_progress(timers - 1)
    /\ loc' = [loc EXCEPT !.start_time = <<now>>]
    /\ UNCHANGED <<apc, hwlog, stage, motion, lia, now, hdf5_file, printed, result, aerr,
                   storeVars, av>>

\* a pending timer goes off and runs update_progress in its own thread
TimerFires ==
    /\ timers > 0
    /\ update_progress(timers - 1)
    /\ UNCHANGED <<apc, loc, hwlog, stage, motion, lia, now, hdf5_file, printed, result, aerr,
                   storeVars, av>>

\* a second passes
Tick ==
    /\ loc.start_time # None
    /\ now < MaxTime
    /\ now' = now + 1
    /\ UNCHANGED <<apc, loc, hwlog, stage, motion, lia, timers, widgets, hdf5_file, printed,
                   result, aerr, storeVars, av>>

\* a check that lets a duration of zero through
DurationError_negative_only(duration) == duration < 0

\* the check of the duration: raise Exception('Duration needs to be positive...')
DurationError(duration) == duration <= 0

\* acquire_allan_variance(instruments, h5_file_name, h5_prefix, seconds,
\* minutes, hours) up to the call of get_scale_factor; h5: both names given
Acquire(seconds, minutes, hours, h5) ==
    /\ apc = "idle"
    /\ LET duration == seconds + 60 * minutes + 3600 * hours
       IN  /\ loc' = [loc EXCEPT !.duration = duration, !.h5 = h5,
                                 !.angle = dither_angle, !.velocity = dither_velocity,
                                 !.pad = padding, !.g_caller = "acquire"]
           /\ IF DurationError(duration)
              THEN /\ Goto("raised")
                   /\ aerr' = "Exception"
                   /\ UNCHANGED widgets
              ELSE /\ Goto("g_velocity")
                   /\ widgets' = [widgets EXCEPT !.label = <<"Calibrating">>]
                   /\ UNCHANGED aerr
    /\ UNCHANGED <<hwlog, stage, motion, lia, now, timers, hdf5_file, printed, result, storeVars, av>>

\* lia.sensitivity = 0.001
ASensitivity ==
    /\ apc = "a_sensitivity"
    /\ Log(<<"lia", "sensitivity=">>)
    /\ lia' = [lia EXCEPT !.sensitivity = 1]
    /\ Goto("a_countdown")
    /\ UNCHANGED <<loc, stage, motion>>
    /\ FlowFrame

\* the countdown: five label texts, a second apart
ACountdown ==
    /\ apc = "a_countdown"
    /\ widgets' = [widgets EXCEPT !.label = <<"Beginning acquisition", 1>>]
    /\ Goto("a_start")
    /\ UNCHANGED <<loc, hwlog, stage, motion, lia, now, timers, hdf5_file, printed, result, aerr,
                   storeVars, av>>

\* start_time = time.time(); the progress bar; update_progress(duration / 100,
\* progress_bar), which finds no time passed yet
AStart ==
    /\ apc = "a_start"
    /\ loc' = [loc EXCEPT !.start_time = <<now>>]
    /\ timers' = timers + 1
    /\ widgets' = [widgets EXCEPT !.bar = 0, !.label = TimeText(0)]
    /\ Goto("a_time_constant")
    /\ UNCHANGED <<hwlog, stage, motion, lia, now, hdf5_file, printed, result, aerr, storeVars, av>>

\* five reads of lia.time_constant: tc
ATimeConstant ==
    /\ apc = "a_time_constant"
    /\ hwlog' = hwlog \o [i \in 1..5 |-> <<"lia", "time_constant">>]
    /\ loc' = [loc EXCEPT !.tc = lia.time_constant]
    /\ Goto("a_read")
    /\ UNCHANGED <<stage, motion, lia>>
    /\ FlowFrame

\* voltage = daq.read(seconds=duration, frequency=1 / tc,
\*                    max_voltage=lia.sensitivity)
ARead(shape) ==
    /\ apc = "a_read"
    /\ hwlog' = hwlog \o <<<<"lia", "sensitivity">>, <<"daq", "read">>>>
    /\ loc' = [loc EXCEPT !.voltage =
                  daq_read(100 * loc.duration, loc.tc, lia.sensitivity, shape)]
    /\ Goto("a_compute")
    /\ UNCHANGED <<stage, motion, lia>>
    /\ FlowFrame

\* the curve of rotation = scale_factor * voltage at dt = 1 / rate, with rate =
\* len(rotation) / duration.  The scale factor <<p, q>> enters as p in the
\* samples and as q * q under the deviations; an infinite or NaN scale factor
\* makes every deviation NaN.
curve_of(scale_factor, volts, duration) ==
    LET c == allan_var(Scale(scale_factor[1], volts), <<duration, Len(volts)>>)
    IN  [tau |-> c.tau,
         sig |-> [j \in 1..Len(c.sig) |->
                    IF scale_factor[2] = 0 THEN <<0, 0>>
                    ELSE <<c.sig[j][1], c.sig[j][2] * scale_factor[2] * scale_factor[2]>>]]

\* rotation, rate, and tau, sig = allan_var(rotation, 1 / rate): 1 / rate raises
\* ZeroDivisionError when no sample came back
ACompute ==
    /\ apc = "a_compute"
    /\ IF Len(loc.voltage) = 0
       THEN /\ Goto("raised")
            /\ aerr' = "ZeroDivisionError"
            /\ UNCHANGED loc
       ELSE /\ loc' = [loc EXCEPT
                          !.tau = curve_of(loc.scale_factor, loc.voltage, loc.duration).tau,
                          !.sig = curve_of(loc.scale_factor, loc.voltage, loc.duration).sig]
            /\ Goto("a_session")
            /\ UNCHANGED aerr
    /\ UNCHANGED <<hwlog, stage, motion, lia, now, timers, widgets, hdf5_file, printed, result,
                   storeVars, av>>

\* acquisition_dict
session_of(l, sensitivity) ==
    [start_time    |-> l.start_time[1],
     time_constant |-> l.tc,
     duration      |-> l.duration,
     taus          |-> l.tau,
     sigmas        |-> l.sig,
     scale_factor  |-> l.scale_factor,
     sensitivity   |-> sensitivity,
     raw_voltage   |-> l.voltage]

\* five reads of lia.sensitivity, acquisition_dict (one more read), and the
\* call of save_to_h5 when both names were given
ASession ==
    /\ apc = "a_session"
    /\ hwlog' = hwlog \o [i \in 1..6 |-> <<"lia", "sensitivity">>]
    /\ loc' = [loc EXCEPT !.acquisition_dict = <<session_of(loc, lia.sensitivity)>>,
                          !.results_dict = <<session_of(loc, lia.sensitivity)>>,
                          !.overwrite = FALSE,
                          !.save_caller = "acquire"]
    /\ Goto(IF loc.h5 THEN "s_open" ELSE "a_close")
    /\ UNCHANGED <<stage, motion, lia>>
    /\ FlowFrame

\* l.close(); progress_bar.close(); return acquisition_dict
AClose ==
    /\ apc = "a_close"
    /\ widgets' = [widgets EXCEPT !.closed = TRUE]
    /\ result' = loc.acquisition_dict
    /\ Goto("returned")
    /\ UNCHANGED <<loc, hwlog, stage, motion, lia, now, timers, hdf5_file, printed, aerr,
                   storeVars, av>>

\* the caller saves the session it was returned: save_to_h5(filename, prefix,
\* results_dict, instruments, overwrite)
SaveToH5(overwrite) ==
    /\ apc = "returned"
    /\ loc' = [loc EXCEPT !.results_dict = result,
                          !.overwrite = overwrite,
                          !.save_caller = "direct"]
    /\ Goto("s_open")
    /\ UNCHANGED <<hwlog, stage, motion, lia, now, timers, widgets, hdf5_file, printed, result,
                   aerr, storeVars, av>>

----------------------------------------------------------------------------
(* The acquisition flow with its instruments, clock and timers *)

NoLoc ==
    [duration |-> 0, h5 |-> FALSE, angle |-> 0, velocity |-> 0, pad |-> 0,
     g_caller |-> "none", read_time |-> 0, freq_tc |-> 0,
     cw_data |-> <<>>, ccw_data |-> <<>>, scale_factor |-> <<0, 0>>,
     start_time |-> None, tc |-> 0, voltage |-> <<>>, tau |-> <<>>, sig |-> <<>>,
     acquisition_dict |-> <<>>, results_dict |-> <<>>, overwrite |-> FALSE,
     save_caller |-> "none", save_err |-> "OK", caught |-> "OK"]

\* a file that already holds a session under the prefix
OldFile ==
    [g \in {Prefix} |->
        [data  |-> [tau |-> <<<<1, 1>>>>, sigma |-> <<<<1, 2>>>>],
         attrs |-> [start_time |-> 0, modulation_frequency |-> 50,
                    modulation_voltage |-> 1, modulation_waveform |-> "SQU",
                    duration |-> 1, scale_factor |-> <<1, 1>>, sensitivity |-> 1,
                    time_constant |-> 10, source_temperature |-> 20,
                    source_current |-> 16263]]]

InitAcq(tcs, files) ==
    /\ apc = "idle"
    /\ loc = NoLoc
    /\ hwlog = <<>>
    /\ stage = "stationary"
    /\ motion = 0
    /\ lia \in [sensitivity : {1000}, time_constant : tcs]
    /\ now = 0
    /\ timers = 0
    /\ widgets = [label |-> <<>>, bar |-> 0, closed |-> FALSE]
    /\ hdf5_file \in files
    /\ printed = <<>>
    /\ result = <<>>
    /\ aerr = "OK"

----------------------------------------------------------------------------
(* The store, used by one thread *)

NoRet == [op |-> "none", err |-> "OK", val |-> <<>>]

InitStore(ws) ==
    /\ h5file = EmptyFile
    /\ writers = ws
    /\ wpc = [w \in WriterIds |-> "idle"]
    /\ wkey = [w \in WriterIds |-> "a"]
    /\ witem = [w \in WriterIds |-> NoItem]
    /\ werr = [w \in WriterIds |-> "OK"]
    /\ wclosed = [w \in WriterIds |-> FALSE]
    /\ ret = NoRet

Init == InitStore({1}) /\ InitAcq({10}, {NoGroups}) /\ InitEngine

Next ==
    \/ \E w \in WriterIds, k \in Keys, item \in Items : SetItem(w, k, item)
    \/ \E w \in WriterIds : CreateArray(w)
    \/ \E w \in WriterIds : AttrRate(w)
    \/ \E w \in WriterIds : AttrStart(w)
    \/ \E w \in WriterIds : AttrScaleFactor(w)
    \/ \E w \in WriterIds : Flush(w)
    \/ \E k \in Keys : DelItem(k)
    \/ Clear
    \/ \E k \in Keys : GetItem(k)
    \/ KeysCall
    \/ LenCall
    \/ \E k \in Keys : HasKey(k)
    \/ ValuesCall
    \/ ItemsCall
    \/ \E x \in ContainsArgs, e \in CompareErrors : Contains(x, e)

vars == <<storeVars, acqVars, av>>

Spec == Init /\ [][Next]_vars

----------------------------------------------------------------------------
(* The acquisition flow *)

InitAcquisition ==
    InitStore({1}) /\ InitAcq(TimeConstants, {NoGroups, OldFile}) /\ InitEngine

NextAcquisition ==
    \/ \E a \in CallArgs, h5 \in BOOLEAN : Acquire(a[1], a[2], a[3], h5)
    \/ GVelocity
    \/ GFreq
    \/ GCwHalf
    \/ GSensitivity
    \/ GWait1
    \/ GCcwHalf
    \/ GAutophase
    \/ GWait2
    \/ GCwFull
    \/ GConst1
    \/ \E shape \in TraceShapes : GReadCw(shape)
    \/ GWait3
    \/ GCcwFull
    \/ GConst2
    \/ \E shape \in TraceShapes : GReadCcw(shape)
    \/ GWait4
    \/ GReturn
    \/ ASensitivity
    \/ ACountdown
    \/ AStart
    \/ ATimeConstant
    \/ \E shape \in TraceShapes : ARead(shape)
    \/ ACompute
    \/ ASession
    \/ \E ok \in BOOLEAN : SOpen(ok)
    \/ STau
    \/ SSigma
    \/ SExcept
    \/ SStartTime
    \/ \E ok \in BOOLEAN : SFreq(ok)
    \/ \E ok \in BOOLEAN : SVoltage(ok)
    \/ \E ok \in BOOLEAN : SWaveform(ok)
    \/ SRest
    \/ AClose
    \/ \E overwrite \in BOOLEAN : SaveToH5(overwrite)
    \/ StageMoves
    \/ TimerFires
    \/ Tick

SpecAcquisition == InitAcquisition /\ [][NextAcquisition]_vars

\* The flow with its timers running: a threading.Timer that was started goes
\* off.  (One time constant and a fresh file.)
InitProgress == InitStore({1}) /\ InitAcq({3}, {NoGroups}) /\ InitEngine

SpecProgress == InitProgress /\ [][NextAcquisition]_vars /\ WF_vars(TimerFires)

----------------------------------------------------------------------------
(* The store, written by two threads at once: each calls __setitem__ once *)

InitWriters == InitStore(WriterIds) /\ InitAcq({10}, {NoGroups}) /\ InitEngine

\* a thread's one call of __setitem__ with a Run
SetOnce(w, k, item) == wpc[w] = "idle" /\ SetItem(w, k, item)

NextWriters ==
    \/ \E w \in WriterIds, k \in Keys, item \in Runs : SetOnce(w, k, item)
    \/ \E w \in WriterIds : CreateArray(w)
    \/ \E w \in WriterIds : AttrRate(w)
    \/ \E w \in WriterIds : AttrStart(w)
    \/ \E w \in WriterIds : AttrScaleFactor(w)
    \/ \E w \in WriterIds : Flush(w)
    \/ \E k \in Keys : GetItem(k)

SpecWriters == InitWriters /\ [][NextWriters]_vars

----------------------------------------------------------------------------
(* get_scale_factor, called by itself *)

\* (_dither_angle, _dither_velocity, _padding) of the calls: the defaults, and
\* a dither of 4 degrees at 8 degrees a second with no padding
DitherArgs == { <<dither_angle, dither_velocity, padding>>, <<4, 8, 0>> }

InitCalibration == InitStore({1}) /\ InitAcq(TimeConstants, {NoGroups}) /\ InitEngine

\* the steps of get_scale_factor
NextScaleFactor ==
    \/ GVelocity
    \/ GFreq
    \/ GCwHalf
    \/ GSensitivity
    \/ GWait1
    \/ GCcwHalf
    \/ GAutophase
    \/ GWait2
    \/ GCwFull
    \/ GConst1
    \/ \E shape \in TraceShapes : GReadCw(shape)
    \/ GWait3
    \/ GCcwFull
    \/ GConst2
    \/ \E shape \in TraceShapes : GReadCcw(shape)
    \/ GWait4
    \/ GReturn

NextCalibration ==
    \/ \E a \in DitherArgs : GetScaleFactor(a[1], a[2], a[3])
    \/ NextScaleFactor
    \/ StageMoves

SpecCalibration == InitCalibration /\ [][NextCalibration]_vars

\* get_scale_factor goes on with its next statement whenever it has one to
\* go on with
SpecCalibrationRuns == SpecCalibration /\ WF_vars(NextScaleFactor)

----------------------------------------------------------------------------
(* allan_var, called by itself on traces of 0 .. MaxSamples and of 900       *)
(* samples                                                                  *)

InitAllan == InitStore({1}) /\ InitAcq({10}, {NoGroups}) /\ InitEngine

NextAllan ==
    \/ \E n \in (0..MaxSamples) \cup {900}, shape \in TraceShapes, dt \in Intervals :
          AllanCall(Trace(shape, n), dt)
    \/ AllanTau
    \/ AllanLoop

SpecAllan == InitAllan /\ [][NextAllan]_vars

----------------------------------------------------------------------------
(* Properties of the store *)

\* the entry of key k carries rate, start and scale_factor
Complete(f, k) == k \in DOMAIN f /\ AttrNames \subseteq DOMAIN f[k].attrs

\* writer w takes its create_array step
CreateStep(w) == wpc[w] = "create" /\ wpc'[w] # "create"

\* writer w takes a step of __setitem__ after the call itself
WriterStep(w) == wpc[w] \notin {"idle", "done"} /\ wpc'[w] # wpc[w]

\* C1: a set on a key that already holds an entry leaves the store as it was:
\* the same keys, and get(k) returns what it returned before, never the new
\* item's samples or metadata.
C1_SetOnExistingKeyKeepsEntry ==
    [][\A w \in WriterIds :
          (CreateStep(w) /\ Complete(h5file, wkey[w]))
          => /\ h5file' = h5file
             /\ keys(h5file') = keys(h5file)
             /\ getitem(h5file', wkey[w]) = getitem(h5file, wkey[w])]_vars

\* a second set on key k has ended and the entry of k is still another Run's
C1_Witness ==
    \E w \in WriterIds :
        /\ wpc[w] = "done" /\ werr[w] = "NodeError"
        /\ getitem(h5file, wkey[w]).err = "OK"
        /\ getitem(h5file, wkey[w]).val # witem[w]
        /\ ret.op = "getitem" /\ ret.err = "OK" /\ ret.val = getitem(h5file, wkey[w]).val

\* C2: every key of the file has its rate, start and scale_factor attributes
\* attached, in every state, those inside a set and after a failed set included.
C2_EveryKeyHasMetadata == \A k \in DOMAIN h5file : Complete(h5file, k)

\* C3: round trip.  When a set of Run r under key k returns, get(k) gives a
\* Run with r's samples, rate, start and scale factor, and the same resolved
\* rotation series.
C3_RoundTrip ==
    [][\A w \in WriterIds :
          (wpc[w] = "flush" /\ wpc'[w] = "done" /\ werr'[w] = "OK")
          => LET g == getitem(h5file', wkey[w])
             IN  /\ g.err = "OK"
                 /\ g.val.data = witem[w].data
                 /\ g.val.rate = witem[w].rate
                 /\ g.val.start = witem[w].start
                 /\ g.val.scale_factor = witem[w].scale_factor
                 /\ rotation(g.val) = rotation(witem[w])
                 /\ g.val = witem[w]]_vars

\* a Run with a start and a scale factor was set, and the get after it
\* returned it
C3_Witness ==
    \E w \in WriterIds :
        /\ wpc[w] = "done" /\ werr[w] = "OK"
        /\ witem[w].start # None /\ witem[w].scale_factor # None
        /\ ret.op = "getitem" /\ ret.err = "OK" /\ ret.val = witem[w]

\* the resolved rotation series as the data model states it: S*v when the
\* scale factor is present, v when it is absent
Resolved(t) ==
    IF t.scale_factor # None THEN Scale(t.scale_factor[1], t.data) ELSE t.data

\* C4: unit resolution.  Every Run read back from the store resolves to S*v
\* when its scale factor S is present (0 included) and to v when it is absent.
C4_UnitResolution ==
    (ret.op = "getitem" /\ ret.err = "OK") => rotation(ret.val) = Resolved(ret.val)

\* C7: a write to a key that already holds an entry ends without an
\* exception reaching the caller.
C7_CollisionDoesNotRaise ==
    [][\A w \in WriterIds :
          (CreateStep(w) /\ Complete(h5file, wkey[w])) => werr'[w] = "OK"]_vars

\* C8: a set of a value that is not Run-shaped ends at the type test with a
\* TypeError, so it never reaches create_array.
C8_NotRunFailsWithTypeError ==
    \A w \in WriterIds :
        (wpc[w] # "idle" /\ witem[w] \in NotRuns)
        => (wpc[w] = "done" /\ werr[w] = "TypeError")

\* C9: `k in store` is true exactly when k is one of keys().  (Stated for the
\* stores every entry of which is readable, where the test raises nothing.)
C9_MembershipAgreesWithKeys ==
    values(h5file).err = "OK"
    => \A k \in Keys, e \in CompareErrors :
          /\ contains(h5file, StrArg(k), e).err = "OK"
          /\ contains(h5file, StrArg(k), e).val <=> has_key(h5file, k)

\* C10: a written entry stays as it is until delete(key) or clear(); reads
\* and failed sets change nothing; delete(k) removes k alone; clear() leaves
\* no key.
C10_Frame ==
    [][/\ \A k \in Keys :
            (Complete(h5file, k) /\ ~DelItem(k) /\ ~Clear)
            => (k \in DOMAIN h5file' /\ h5file'[k] = h5file[k])
       /\ \A w \in WriterIds :
            (WriterStep(w) /\ witem[w] \in NotRuns) => h5file' = h5file
       /\ \A k \in Keys :
            (DelItem(k) /\ k \in DOMAIN h5file)
            => /\ k \notin DOMAIN h5file'
               /\ \A j \in DOMAIN h5file \ {k} :
                     j \in DOMAIN h5file' /\ h5file'[j] = h5file[j]
       /\ Clear => keys(h5file') = <<>>]_vars

\* writer w has created the array of its key and has not failed
Owns(w) == wpc[w] \in {"rate", "start", "scale_factor", "flush", "done"} /\ werr[w] = "OK"

\* the entry of key k holds nothing but what writer w has put there
WhollyOf(k, w) ==
    /\ wkey[w] = k
    /\ h5file[k].data = witem[w].data
    /\ \A a \in DOMAIN h5file[k].attrs : h5file[k].attrs[a] = witem[w][a]

\* C11: two threads set Runs concurrently, each once.  In every state every
\* entry is wholly one writer's, the one whose create_array came first: its
\* samples and each attribute present are that writer's Run's; when that writer
\* has returned, get gives its Run; and the writer that came second to a key
\* ends with NodeError and changes nothing.
C11_FirstWriterWins ==
    /\ [](\A k \in DOMAIN h5file :
            \E w \in WriterIds :
                /\ Owns(w) /\ WhollyOf(k, w)
                /\ wpc[w] = "done" => getitem(h5file, k).val = witem[w]
                /\ \A v \in WriterIds \ {w} :
                      (wkey[v] = k /\ wpc[v] = "done") => werr[v] = "NodeError")
    /\ [][\A w \in WriterIds :
             (CreateStep(w) /\ wkey[w] \in DOMAIN h5file) => h5file' = h5file]_vars

\* one writer is between its attribute writes while the other, with another
\* Run for the same key, has already been refused
C11_Witness ==
    \E w, v \in WriterIds :
        /\ wpc[w] = "start" /\ wkey[v] = wkey[w] /\ witem[v] # witem[w]
        /\ wpc[v] = "done" /\ werr[v] = "NodeError"

----------------------------------------------------------------------------
(* Properties of the acquisition flow *)

\* C5: a call whose seconds + 60*minutes + 3600*hours is not positive raises
\* at once: no instrument operation has been invoked, the stage has not moved
\* and the amplifier keeps its sensitivity.
C5_NonPositiveDurationFailsFirst ==
    (apc # "idle" /\ loc.duration <= 0)
    => /\ apc = "raised" /\ aerr = "Exception"
       /\ hwlog = <<>>
       /\ stage = "stationary"
       /\ lia.sensitivity = 1000

\* a call with a zero duration has failed
C5_Witness == apc = "raised" /\ aerr = "Exception" /\ loc.duration = 0 /\ hwlog = <<>>

\* the session the flow has acquired, from the values it measured
AcquiredSession ==
    [start_time    |-> loc.start_time[1],
     time_constant |-> loc.tc,
     duration      |-> loc.duration,
     taus          |-> curve_of(loc.scale_factor, loc.voltage, loc.duration).tau,
     sigmas        |-> curve_of(loc.scale_factor, loc.voltage, loc.duration).sig,
     scale_factor  |-> loc.scale_factor,
     sensitivity   |-> 1,
     raw_voltage   |-> loc.voltage]

\* save_to_h5, called by the flow, did not save: it raised, or it found the
\* prefix taken
SaveFailed == loc.save_err # "OK" \/ loc.caught # "OK"

\* C6: no failure of save_to_h5 reaches the caller of acquire_allan_variance:
\* the flow returns the acquired session, and the failure has been printed.
C6_SaveFailureKeepsSession ==
    /\ loc.save_caller = "acquire" => apc # "raised"
    /\ (apc = "returned" /\ loc.save_caller = "acquire" /\ SaveFailed)
       => /\ result = <<AcquiredSession>>
          /\ aerr = "OK"
          /\ printed # <<>>

\* the flow returned a session with a curve after a query of the waveform
\* generator failed inside save_to_h5
C6_Witness ==
    /\ apc = "returned" /\ loc.save_caller = "acquire"
    /\ loc.save_err = "VisaIOError"
    /\ result # <<>> /\ Len(result[1].taus) > 0

\* the provenance attributes save_to_h5 writes for session d
ProvenanceOf(d) ==
    [start_time           |-> d.start_time,
     modulation_frequency |-> awg.freq,
     modulation_voltage   |-> awg.voltage,
     modulation_waveform  |-> awg.waveform,
     duration             |-> d.duration,
     scale_factor         |-> d.scale_factor,
     sensitivity          |-> d.sensitivity,
     time_constant        |-> d.time_constant,
     source_temperature   |-> 20,
     source_current       |-> 16263]

\* a call of save_to_h5 by the caller itself has ended
DirectSaveEnded == loc.save_caller = "direct" /\ apc \in {"saved", "raised"}

\* the file could not be opened, or a query of the waveform generator failed
InstrumentFailed == aerr \in {"OSError", "VisaIOError"}

\* C12: a save with overwrite requested, on a prefix that already holds tau
\* and sigma, ends with the new session's tau and sigma stored and every
\* provenance attribute set to the new session's value, whatever the length
\* of the new curve.  (The file opened and the generator answered.)
C12_OverwriteReplaces ==
    (DirectSaveEnded /\ loc.overwrite /\ loc.caught # "OK" /\ ~InstrumentFailed)
    => /\ apc = "saved"
       /\ hdf5_file[Prefix].data.tau = loc.results_dict[1].taus
       /\ hdf5_file[Prefix].data.sigma = loc.results_dict[1].sigmas
       /\ hdf5_file[Prefix].attrs = ProvenanceOf(loc.results_dict[1])

\* a call of save_to_h5 has ended, by returning or by raising
SaveEnded ==
    /\ loc.results_dict # <<>>
    /\ \/ loc.save_caller = "direct" /\ apc \in {"saved", "raised"}
       \/ loc.save_caller = "acquire" /\ loc.h5 /\ apc \in {"a_close", "returned"}

\* the prefix holds tau or sigma data of session d
HoldsDataOf(d) ==
    /\ Prefix \in DOMAIN hdf5_file
    /\ \/ "tau" \in DOMAIN hdf5_file[Prefix].data /\ hdf5_file[Prefix].data.tau = d.taus
       \/ "sigma" \in DOMAIN hdf5_file[Prefix].data
             /\ hdf5_file[Prefix].data.sigma = d.sigmas

\* C13: whenever a call of save_to_h5 has ended and the prefix holds tau or
\* sigma data of its session, the prefix carries every provenance attribute
\* of that session, a failed query of the waveform generator included.
C13_DataCarriesProvenance ==
    (SaveEnded /\ HoldsDataOf(loc.results_dict[1]))
    => hdf5_file[Prefix].attrs = ProvenanceOf(loc.results_dict[1])

\* the flow itself, not a later save by its caller, ended with an exception
FlowRaised == apc = "raised" /\ loc.save_caller # "direct"

\* C15: with a positive duration the flow never ends with an exception,
\* whatever number n of samples the DAQ returned, and every tau of the
\* session it returns is a whole number of intervals duration / n; fewer than
\* nine samples, none included, give an empty curve.
C15_EffectiveRateAnyCount ==
    (apc # "idle" /\ loc.duration > 0)
    => /\ ~FlowRaised
       /\ result # <<>>
          => LET d == result[1]
                 n == Len(d.raw_voltage)
             IN  /\ Len(d.taus) = Len(d.sigmas)
                 /\ \A j \in 1..Len(d.taus) :
                       d.taus[j][2] = n /\ d.taus[j][1] % d.duration = 0
                 /\ n < 9 => d.taus = <<>>

----------------------------------------------------------------------------
(* Properties of allan_var *)

\* the call of allan_var has ended, by returning or by raising
AllanEnded == av.pc \in {"returned", "raised"}

\* the window length, in samples, behind the j-th tau returned
WindowOf(j) == av.ret_tau[j][1] \div av.dt[1]

\* C14: for 0 .. 8 samples allan_var returns an empty tau and an empty sigma
\* and raises nothing.
C14_TooFewSamplesEmptyCurve ==
    (AllanEnded /\ Len(av.x) < 9)
    => av.pc = "returned" /\ av.ret_tau = <<>> /\ av.ret_sig = <<>>

\* C16: every window length m behind a returned tau satisfies m <= N / 9.
C16_WindowsWithinMax ==
    av.pc = "returned"
    => \A j \in 1..Len(av.ret_tau) : 9 * WindowOf(j) <= Len(av.x)

\* C17: for every candidate m = ceil(1.1 ** k) and N >= 9 * m samples, the
\* curve has an entry with tau = m * dt.
C17_CandidateWindowPresent ==
    av.pc = "returned"
    => \A k \in 0..48 :
          LET m == CeilFix(PowFix(k))
          IN  Len(av.x) >= 9 * m
              => \E j \in 1..Len(av.ret_tau) : av.ret_tau[j] = <<m * av.dt[1], av.dt[2]>>

\* a call on 900 samples with dt = 1 has returned
Returned900 == av.pc = "returned" /\ Len(av.x) = 900 /\ av.dt = <<1, 1>>

\* the taus are whole seconds, strictly increasing and at most 100
IncreasingTo100 ==
    /\ \A j \in 1..Len(av.ret_tau) : av.ret_tau[j][2] = 1 /\ av.ret_tau[j][1] <= 100
    /\ \A j \in 1..(Len(av.ret_tau) - 1) : av.ret_tau[j][1] < av.ret_tau[j + 1][1]

\* the taus begin with the seconds of s
BeginsWith(s) ==
    /\ Len(av.ret_tau) >= Len(s)
    /\ \A j \in 1..Len(s) : av.ret_tau[j][1] = s[j]

\* C18, as stated: for 900 samples with dt = 1 the taus are strictly
\* increasing integers, at most 100, beginning 1, 2, 3, 4, 5, 6, 8, 9, 11.
C18_Windows900AsStated ==
    Returned900 => IncreasingTo100 /\ BeginsWith(<<1, 2, 3, 4, 5, 6, 8, 9, 11>>)

\* C18, amended: for 900 samples with dt = 1 the taus are strictly increasing
\* integers, at most 100, beginning 1, 2, 3, 4, 5, 6, 7, 8, 9, 10, 11, 12, 14.
C18_Windows900 ==
    Returned900
    => IncreasingTo100 /\ BeginsWith(<<1, 2, 3, 4, 5, 6, 7, 8, 9, 10, 11, 12, 14>>)

\* allan_var has returned the curve of a 900-sample trace that is not flat
C18_Witness ==
    Returned900 /\ av.x = Trace("ripple", 900) /\ Len(av.ret_sig) = Len(av.ret_tau)

\* the offsets 2m - 1 .. N - 2
FullOffsets(n, m) == [i \in 1..(IF n - 2 * m > 0 THEN n - 2 * m ELSE 0) |-> 2 * m - 2 + i]

\* C19: for each window m the mean runs over exactly the offsets k with
\* 2m - 1 <= k <= N - 2 (0-based), none skipped.
C19_EveryValidOffset ==
    av.pc = "returned"
    => \A j \in 1..Len(av.tau) : av.used[j] = FullOffsets(av.n, av.tau[j])

----------------------------------------------------------------------------
(* Properties of the progress task *)

\* seconds since start_time
Elapsed == now - loc.start_time[1]

\* C20: an invocation of update_progress that finds the duration elapsed
\* schedules no successor and publishes duration, one that finds it not
\* elapsed schedules one successor; no published value exceeds duration; and
\* once the duration has elapsed the timers end: eventually none is pending,
\* and none is pending ever after.
C20_ProgressStops ==
    /\ [][TimerFires =>
            IF Elapsed >= loc.duration
            THEN timers' = timers - 1 /\ widgets'.bar = loc.duration
            ELSE timers' = timers /\ widgets'.bar = Elapsed]_vars
    /\ [](loc.start_time # None => widgets.bar <= loc.duration)
    /\ ((loc.start_time # None /\ Elapsed >= loc.duration) ~> [](timers = 0))

\* the duration has elapsed, the last invocation has published it and no
\* timer is pending
C20_Witness ==
    /\ loc.start_time # None /\ Elapsed >= loc.duration
    /\ timers = 0 /\ widgets.bar = loc.duration /\ loc.duration > 0

\* C27: within one call of acquire_allan_variance at most one progress timer
\* is pending at any moment: an invocation started by a timer leaves at most
\* as many pending as it found, and the only step that adds one is the
\* initial call of update_progress before the DAQ read.
C27_OneTimerPending ==
    /\ [](timers <= 1)
    /\ [][/\ TimerFires => timers' <= timers
          /\ timers' > timers => (apc = "a_start" /\ apc' = "a_time_constant"
                                    /\ timers' = timers + 1)]_vars

\* a timer is pending that an earlier invocation of the task scheduled
C27_Witness == timers = 1 /\ now > 0 /\ widgets.bar > 0 /\ widgets.bar < loc.duration

\* the instrument operations of a whole acquisition, those of save_to_h5 apart
AcquisitionOps ==
    <<<<"rot", "velocity=">>>> \o [i \in 1..5 |-> <<"lia", "time_constant">>]
    \o << <<"rot", "cw", "half">>, <<"lia", "sensitivity=">>, <<"rot", "is_stationary">>,
          <<"rot", "ccw", "half">>, <<"lia", "autophase">>, <<"rot", "is_stationary">>,
          <<"rot", "cw", "full">>, <<"rot", "is_constant_speed">>,
          <<"lia", "sensitivity">>, <<"daq", "read">>, <<"rot", "is_stationary">>,
          <<"rot", "ccw", "full">>, <<"rot", "is_constant_speed">>,
          <<"lia", "sensitivity">>, <<"daq", "read">>, <<"rot", "is_stationary">>,
          <<"lia", "sensitivity=">> >>
    \o [i \in 1..5 |-> <<"lia", "time_constant">>]
    \o << <<"lia", "sensitivity">>, <<"daq", "read">> >>
    \o [i \in 1..6 |-> <<"lia", "sensitivity">>]

\* the queries of the waveform generator by save_to_h5
AwgOps == << <<"awg", "freq">>, <<"awg", "voltage">>, <<"awg", "waveform">> >>

\* C21: the progress task writes the bar and the label (and its own timers)
\* and nothing else; whatever it did, the flow returns the session of the
\* values measured, and the instrument operations are those of the flow in
\* their order, followed by the generator queries of the save.
C21_ProgressTaskIsolated ==
    /\ [][TimerFires =>
            UNCHANGED <<apc, loc, hwlog, stage, motion, lia, now, hdf5_file, printed,
                        result, aerr>>]_vars
    /\ [](apc = "returned"
          => /\ result = <<AcquiredSession>>
             /\ \E k \in 0..3 : hwlog = AcquisitionOps \o SubSeq(AwgOps, 1, k))

\* the flow returned a session with a curve after the progress task had run
\* and published a time
C21_Witness ==
    /\ apc = "returned" /\ result # <<>> /\ Len(result[1].taus) > 0
    /\ widgets.bar > 0 /\ loc.h5

----------------------------------------------------------------------------
(* Properties of get_scale_factor *)

\* the positions of the entries e in the log
Where(e) == {i \in 1..Len(hwlog) : hwlog[i] = e}

\* the rotation commands issued so far, in order
RotationCommands ==
    SelectSeq(hwlog, LAMBDA e : e[1] = "rot" /\ e[2] \in {"cw", "ccw"})

\* the displacement the commands c add up to, in half dither angles
RECURSIVE NetDisplacement(_)
NetDisplacement(c) ==
    IF c = <<>> THEN 0
    ELSE (IF Head(c)[2] = "cw" THEN 1 ELSE 0 - 1) * (IF Head(c)[3] = "half" THEN 1 ELSE 2)
         + NetDisplacement(Tail(c))

\* C22: autophase is invoked once, after the counter-clockwise half rotation
\* was commanded, and the stage is still in motion as it is invoked, for
\* every positive dither angle and velocity.
C22_AutophaseWhileMoving ==
    /\ [](Cardinality(Where(<<"lia", "autophase">>)) <= 1)
    /\ [][(apc = "g_autophase" /\ apc' = "g_wait2")
          => /\ hwlog[Len(hwlog)] = <<"rot", "ccw", "half">>
             /\ hwlog'[Len(hwlog')] = <<"lia", "autophase">>
             /\ stage' # "stationary"]_vars

\* C23: a DAQ read of the calibration follows the report of constant speed
\* of the full rotation commanded just before it, and a rotation commanded
\* after a read follows that read and the report of a stationary stage.
C23_ReadsBetweenRotations ==
    LET n == Len(hwlog)
    IN  /\ \A i \in Where(<<"daq", "read">>) :
              /\ i >= 4
              /\ hwlog[i - 1] = <<"lia", "sensitivity">>
              /\ hwlog[i - 2] = <<"rot", "is_constant_speed">>
              /\ hwlog[i - 3] \in {<<"rot", "cw", "full">>, <<"rot", "ccw", "full">>}
        /\ \A i \in 1..n :
              (hwlog[i][1] = "rot" /\ hwlog[i][2] \in {"cw", "ccw"}
                 /\ \E j \in Where(<<"daq", "read">>) : j < i)
              => hwlog[i - 1] = <<"rot", "is_stationary">> /\ hwlog[i - 2] = <<"daq", "read">>
        /\ (apc \in {"g_read_cw", "g_read_ccw"}) => stage = "constant"

\* both reads have been taken and the stage has stopped after the second
C23_Witness ==
    /\ apc = "g_return"
    /\ Cardinality(Where(<<"daq", "read">>)) = 2
    /\ Len(loc.cw_data) > 0 /\ Len(loc.ccw_data) > 0

\* C24: while the stage does not report the condition awaited, the flow stays
\* at its wait: it neither returns nor raises and invokes no operation.
C24_WaitsWithoutTimeout ==
    [][/\ (apc \in {"g_wait1", "g_wait2", "g_wait3", "g_wait4"} /\ ~is_stationary(stage))
          => (apc' = apc /\ hwlog' = hwlog /\ lia' = lia /\ aerr' = aerr)
       /\ (apc \in {"g_const1", "g_const2"} /\ ~is_constant_speed(stage))
          => (apc' = apc /\ hwlog' = hwlog /\ lia' = lia /\ aerr' = aerr)]_vars

\* the flow waits for constant speed and the stage has stopped without ever
\* reporting it: the flow stays there for good
C24_Witness == apc = "g_const1" /\ stage = "stationary" /\ aerr = "OK"

\* C25: the scale factor returned is the one any other counter-clockwise
\* trace would have given with the same clockwise trace and velocity.
C25_ScaleFactorIgnoresCcw ==
    apc = "g_returned"
    => \A shape \in TraceShapes :
          loc.scale_factor =
              scale_factor_of(loc.cw_data,
                              daq_read(loc.read_time, loc.freq_tc, lia.sensitivity, shape),
                              loc.velocity)

\* a calibration has returned a finite scale factor from two traces that
\* differ in their mean
C25_Witness ==
    /\ apc = "g_returned"
    /\ loc.scale_factor[2] # 0
    /\ Abs(SumSeq(loc.ccw_data)) # Abs(SumSeq(loc.cw_data))

\* C26: unless get_scale_factor stays in one of its waits for good, a call
\* returns; it has then issued the four rotations clockwise half, counter-clockwise
\* half, clockwise full, counter-clockwise full, which add up to nothing, and
\* two DAQ reads, and the stage is stationary.
C26_CalibrationTerminates ==
    /\ [](apc \in {"g_return", "g_returned"}
          => /\ RotationCommands = << <<"rot", "cw", "half">>, <<"rot", "ccw", "half">>,
                                      <<"rot", "cw", "full">>, <<"rot", "ccw", "full">> >>
             /\ NetDisplacement(RotationCommands) = 0
             /\ Cardinality(Where(<<"daq", "read">>)) = 2
             /\ stage = "stationary")
    /\ \/ <>[](apc \in WaitPositions)
       \/ [](apc = "g_velocity" => <>(apc = "g_returned"))

\* a call with the default dither has returned
C26_Witness ==
    /\ apc = "g_returned" /\ stage = "stationary"
    /\ loc.angle = dither_angle /\ Len(RotationCommands) = 4

====
